---- MODULE Spec2Model ----
(***************************************************************************)
(* at::Device (aten/src/ATen/Device.h): a device type plus an optional     *)
(* device index, with validating constructors, an unvalidated index        *)
(* setter, accessors and strict equality.  One Device object `dev` is      *)
(* followed through its lifetime; `last` records the most recent call, its *)
(* arguments and what it returned or threw.                                *)
(***************************************************************************)
EXTENDS Integers, Sequences, FiniteSets, TLC

VARIABLES dev, last

vars == <<dev, last>>

----------------------------------------------------------------------------
(* Bounds *)

\* set_index / constructor indices are drawn from -MaxIndex..MaxIndex
\* together with the two extremes of int32_t.
MaxIndex == 3

\* longest index token of a descriptor string
MaxDigits == 2

----------------------------------------------------------------------------
(* Types *)

INT32_MIN == -2147483647 - 1

INT32_MAX == 2147483647

\* enum class Type { CPU, CUDA }
Type == {"CPU", "CUDA"}

\* the Backend enumeration consumed by backend_to_type
Backend == {"kCPU", "kCUDA", "kSparseCPU", "kSparseCUDA", "Undefined", "NumOptions"}

\* values of an int32_t argument that the model enumerates
Indices == (-MaxIndex .. MaxIndex) \cup {INT32_MIN, INT32_MAX}

\* the default argument `int32_t index = -1`, also the initializer of index_
DefaultIndex == -1

\* no object constructed yet
NoDevice == [type_ |-> "none", index_ |-> DefaultIndex]

\* every value a Device object can hold for the enumerated indices
AllDevices == [type_ : Type, index_ : Indices]

----------------------------------------------------------------------------
(* Results of a call *)

Ok(d) == [ok |-> TRUE, device |-> d, msg |-> <<>>, kind |-> "none"]

Err(k, m) == [ok |-> FALSE, device |-> NoDevice, msg |-> m, kind |-> k]

----------------------------------------------------------------------------
(* Text: a string is a sequence of one-character strings *)

DigitChars == <<"0", "1", "2", "3", "4", "5", "6", "7", "8", "9">>

IsDigit(c) == \E k \in 1..10 : DigitChars[k] = c

DigitValue(c) == (CHOOSE k \in 1..10 : DigitChars[k] = c) - 1

RECURSIVE FormatNat(_)
FormatNat(n) ==
    IF n < 10 THEN <<DigitChars[n + 1]>>
    ELSE FormatNat(n \div 10) \o <<DigitChars[(n % 10) + 1]>>

\* the digits of a negative number, computed without negating it
RECURSIVE FormatNeg(_)
FormatNeg(n) ==
    LET digit == (10 - (n % 10)) % 10
        q == (n + digit) \div 10
    IN  IF q = 0 THEN <<DigitChars[digit + 1]>>
        ELSE FormatNeg(q) \o <<DigitChars[digit + 1]>>

\* stream << int32_t
FormatInt(n) == IF n < 0 THEN <<"-">> \o FormatNeg(n) ELSE FormatNat(n)

RECURSIVE ParseNat(_)
ParseNat(s) ==
    IF Len(s) = 0 THEN 0
    ELSE 10 * ParseNat(SubSeq(s, 1, Len(s) - 1)) + DigitValue(s[Len(s)])

AllDigits(s) == \A i \in 1..Len(s) : IsDigit(s[i])

StartsWith(s, p) == Len(s) >= Len(p) /\ SubSeq(s, 1, Len(p)) = p

Drop(s, n) == SubSeq(s, n + 1, Len(s))

IsInfix(sub, s) ==
    \E i \in 0 .. (Len(s) - Len(sub)) : SubSeq(s, i + 1, i + Len(sub)) = sub

----------------------------------------------------------------------------
(* Device *)

\* toString(Backend): the name of the enumerator
toString(backend) ==
    CASE backend = "kCPU" -> "CPU"
      [] backend = "kCUDA" -> "CUDA"
      [] backend = "kSparseCPU" -> "SparseCPU"
      [] backend = "kSparseCUDA" -> "SparseCUDA"
      [] OTHER -> backend

backend_to_type_fallthrough(backend) ==
    IF backend \in {"kCPU", "kSparseCPU", "kSparseCUDA"} THEN [ok |-> TRUE, type |-> "CPU", msg |-> <<>>]
    ELSE IF backend = "kCUDA" THEN [ok |-> TRUE, type |-> "CUDA", msg |-> <<>>]
    ELSE [ok |-> FALSE, type |-> "none",
          msg |-> <<"Invalid backend ", toString(backend), " for Device construction">>]

backend_to_type(backend) ==
    IF backend \in {"kCPU", "kSparseCPU"} THEN [ok |-> TRUE, type |-> "CPU", msg |-> <<>>]
    ELSE IF backend \in {"kCUDA", "kSparseCUDA"} THEN [ok |-> TRUE, type |-> "CUDA", msg |-> <<>>]
    ELSE [ok |-> FALSE, type |-> "none",
          msg |-> <<"Invalid backend ", toString(backend), " for Device construction">>]

is_cuda(d) == d.type_ = "CUDA"

is_cpu(d) == d.type_ = "CPU"

type(d) == d.type_

index(d) == d.index_

has_index_nonnegative(d) == d.index_ >= 0

has_index_positive(d) == d.index_ > 0

has_index(d) == d.index_ # -1

\* variants of the constructor used to test the properties below
Device_Type_cpu_off_by_one(t, idx) ==
    LET d == [type_ |-> t, index_ |-> idx] IN
    IF ~(idx = -1 \/ idx >= 0)
    THEN Err("Error", <<"Device index must be -1 or non-negative, got ">> \o FormatInt(idx))
    ELSE IF ~(~is_cpu(d) \/ idx <= 1)
    THEN Err("Error", <<"CPU device index must be -1 or zero, got ">> \o FormatInt(idx))
    ELSE Ok(d)

Device_Type_cpu_normalized(t, idx) ==
    LET d == [type_ |-> t, index_ |-> idx] IN
    IF ~(idx = -1 \/ idx >= 0)
    THEN Err("Error", <<"Device index must be -1 or non-negative, got ">> \o FormatInt(idx))
    ELSE IF ~(~is_cpu(d) \/ idx <= 0)
    THEN Err("Error", <<"CPU device index must be -1 or zero, got ">> \o FormatInt(idx))
    ELSE Ok(IF is_cpu(d) THEN [d EXCEPT !.index_ = 0] ELSE d)

Device_Type_message_without_index(t, idx) ==
    LET d == [type_ |-> t, index_ |-> idx] IN
    IF ~(idx = -1 \/ idx >= 0)
    THEN Err("Error", <<"Device index must be -1 or non-negative, got ">> \o FormatInt(idx))
    ELSE IF ~(~is_cpu(d) \/ idx <= 0)
    THEN Err("Error", <<"CPU device index must be -1 or zero">>)
    ELSE Ok(d)

\* Device(Type type, int32_t index = -1): the members are initialized, then
\* the two AT_CHECKs run in order; the first that fails throws.
Device_Type(t, idx) ==
    LET d == [type_ |-> t, index_ |-> idx] IN
    IF ~(idx = -1 \/ idx >= 0)
    THEN Err("Error", <<"Device index must be -1 or non-negative, got ">> \o FormatInt(idx))
    ELSE IF ~(~is_cpu(d) \/ idx <= 0)
    THEN Err("Error", <<"CPU device index must be -1 or zero, got ">> \o FormatInt(idx))
    ELSE Ok(d)

\* Device(Backend backend, int32_t index = -1) : Device(backend_to_type(backend), index)
Device_Backend(backend, idx) ==
    LET r == backend_to_type(backend) IN
    IF ~r.ok THEN Err("Error", r.msg) ELSE Device_Type(r.type, idx)

operator_eq_ignoring_unspecified(a, b) ==
    a.type_ = b.type_ /\
    (a.index_ = b.index_ \/ (a.type_ = "CPU" /\ {a.index_, b.index_} = {-1, 0}))

operator_eq(a, b) == a.type_ = b.type_ /\ a.index_ = b.index_

operator_ne(a, b) == ~operator_eq(a, b)

set_index_validated(d, n) == IF n = -1 \/ n >= 0 THEN [d EXCEPT !.index_ = n] ELSE d

set_index_rebuilt(d, n) == [type_ |-> "CPU", index_ |-> n]

set_index(d, n) == [d EXCEPT !.index_ = n]

----------------------------------------------------------------------------
(* Descriptor strings *)

TypeName(t) == IF t = "CPU" THEN <<"c", "p", "u">> ELSE <<"c", "u", "d", "a">>

\* operator<<(std::ostream&, const Device&)
Format(d) ==
    IF has_index(d) THEN TypeName(type(d)) \o <<":">> \o FormatInt(index(d))
    ELSE TypeName(type(d))

\* Device(const std::string& device_string)
Device_String(str) ==
    LET t == IF StartsWith(str, TypeName("CUDA")) THEN "CUDA"
             ELSE IF StartsWith(str, TypeName("CPU")) THEN "CPU"
             ELSE "none"
        rest == IF t = "none" THEN <<>> ELSE Drop(str, Len(TypeName(t)))
    IN  IF t = "none" THEN Err("ParseError", <<"unknown device type">>)
        ELSE IF Len(rest) = 0 THEN Device_Type(t, DefaultIndex)
        ELSE IF rest[1] # ":" THEN Err("ParseError", <<"expected ':'">>)
        ELSE IF Len(rest) = 1 THEN Device_Type(t, DefaultIndex)
        ELSE IF ~AllDigits(Drop(rest, 1)) THEN Err("ParseError", <<"invalid device index">>)
        ELSE Device_Type(t, ParseNat(Drop(rest, 1)))

\* the descriptor strings the model feeds to the string constructor
InputDigits == {"0", "1", "7"}

RECURSIVE DigitTokens(_)
DigitTokens(n) ==
    IF n = 0 THEN {<<>>}
    ELSE LET shorter == DigitTokens(n - 1) IN
         shorter \cup {tok \o <<c>> : tok \in {s \in shorter : Len(s) = n - 1}, c \in InputDigits}

TypeTokens == {<<>>, <<"c", "p", "u">>, <<"c", "u", "d", "a">>, <<"g", "p", "u">>, <<"C", "P", "U">>}

IndexTokens == DigitTokens(MaxDigits) \cup {<<"-", "1">>, <<"x">>, <<"1", "x">>}

DeviceStrings ==
    {tt \o <<":">> \o it : tt \in TypeTokens, it \in IndexTokens}
        \cup TypeTokens
        \cup {tt \o <<"0">> : tt \in TypeTokens}

Constructible(d) == \E str \in DeviceStrings : Device_String(str) = Ok(d)

----------------------------------------------------------------------------
(* The object and the calls made on it *)

Call(op, arg, result) == [op |-> op, arg |-> arg, result |-> result]

NoArg == [type |-> "none", backend |-> "none", given |-> FALSE, index |-> DefaultIndex,
          str |-> <<>>, other |-> NoDevice]

Init ==
    /\ dev = NoDevice
    /\ last = Call("none", NoArg, Ok(NoDevice))

Constructed == dev # NoDevice

\* a constructor that throws produces no object: the variable keeps its value
Assign(r) == dev' = IF r.ok THEN r.device ELSE dev

\* Device d(type) / Device d(type, index)
ConstructType ==
    \E t \in Type, given \in BOOLEAN, n \in Indices :
        LET idx == IF given THEN n ELSE DefaultIndex
            r == Device_Type(t, idx)
        IN  /\ (given \/ n = DefaultIndex)
            /\ Assign(r)
            /\ last' = Call("Device_Type", [NoArg EXCEPT !.type = t, !.given = given, !.index = idx], r)

\* Device d(backend) / Device d(backend, index)
ConstructBackend ==
    \E b \in Backend, given \in BOOLEAN, n \in Indices :
        LET idx == IF given THEN n ELSE DefaultIndex
            r == Device_Backend(b, idx)
        IN  /\ (given \/ n = DefaultIndex)
            /\ Assign(r)
            /\ last' = Call("Device_Backend", [NoArg EXCEPT !.backend = b, !.given = given, !.index = idx], r)

\* Device d(device_string)
ConstructString ==
    \E str \in DeviceStrings :
        LET r == Device_String(str) IN
        /\ Assign(r)
        /\ last' = Call("Device_String", [NoArg EXCEPT !.str = str], r)

\* Device d2(text written by stream << d)
Reconstruct ==
    /\ Constructed
    /\ LET r == Device_String(Format(dev)) IN
       /\ Assign(r)
       /\ last' = Call("Reconstruct", [NoArg EXCEPT !.str = Format(dev), !.other = dev], r)

SetIndex ==
    /\ Constructed
    /\ \E n \in Indices :
        /\ dev' = set_index(dev, n)
        /\ last' = Call("set_index", [NoArg EXCEPT !.index = n], Ok(NoDevice))

\* the const accessors: the returned value is recorded in result.msg
Returned(value) == [Ok(NoDevice) EXCEPT !.msg = <<value>>]

GetType ==
    /\ Constructed
    /\ last' = Call("type", NoArg, Returned(type(dev)))
    /\ UNCHANGED dev

GetIndex ==
    /\ Constructed
    /\ last' = Call("index", NoArg, Returned(index(dev)))
    /\ UNCHANGED dev

HasIndex ==
    /\ Constructed
    /\ last' = Call("has_index", NoArg, Returned(has_index(dev)))
    /\ UNCHANGED dev

IsCuda ==
    /\ Constructed
    /\ last' = Call("is_cuda", NoArg, Returned(is_cuda(dev)))
    /\ UNCHANGED dev

IsCpu ==
    /\ Constructed
    /\ last' = Call("is_cpu", NoArg, Returned(is_cpu(dev)))
    /\ UNCHANGED dev

Equals ==
    /\ Constructed
    /\ \E other \in AllDevices :
        last' = Call("operator==", [NoArg EXCEPT !.other = other],
                     Returned(operator_eq(dev, other)))
    /\ UNCHANGED dev

NotEquals ==
    /\ Constructed
    /\ \E other \in AllDevices :
        last' = Call("operator!=", [NoArg EXCEPT !.other = other],
                     Returned(operator_ne(dev, other)))
    /\ UNCHANGED dev

WriteToStream ==
    /\ Constructed
    /\ last' = Call("operator<<", NoArg, [Ok(NoDevice) EXCEPT !.msg = Format(dev)])
    /\ UNCHANGED dev

Next ==
    \/ ConstructType
    \/ ConstructBackend
    \/ ConstructString
    \/ Reconstruct
    \/ SetIndex
    \/ GetType
    \/ GetIndex
    \/ HasIndex
    \/ IsCuda
    \/ IsCpu
    \/ Equals
    \/ NotEquals
    \/ WriteToStream

Spec == Init /\ [][Next]_vars

----------------------------------------------------------------------------
(* Properties *)

ConstructorCalls == {"Device_Type", "Device_Backend", "Device_String", "Reconstruct"}

\* C1: Device(type, index) throws exactly when index < -1, or the type is
\* CPU and index >= 1; every other (type, index) pair constructs.
C1_ConstructFailsIff ==
    last.op = "Device_Type" =>
        (~last.result.ok <=>
            (last.arg.index < -1 \/ (last.arg.type = "CPU" /\ last.arg.index >= 1)))

C1_Witness ==
    /\ last.op = "Device_Type"
    /\ last.arg.type = "CPU"
    /\ last.arg.index = 1
    /\ ~last.result.ok

\* C2: for every (type, index) that satisfies the two index rules the
\* constructor succeeds and type() and index() return the supplied values;
\* with the index omitted, index() returns -1.
C2_AccessorsReturnSupplied ==
    (/\ last.op = "Device_Type"
     /\ (last.arg.index = -1 \/ last.arg.index >= 0)
     /\ (last.arg.type = "CPU" => last.arg.index \in {-1, 0}))
    => /\ last.result.ok
       /\ type(dev) = last.arg.type
       /\ index(dev) = last.arg.index
       /\ (~last.arg.given => index(dev) = -1)

C2_Witness ==
    /\ last.op = "Device_Type"
    /\ last.arg.given
    /\ last.arg.type = "CPU"
    /\ last.arg.index = -1
    /\ last.result.ok
    /\ dev = [type_ |-> "CPU", index_ |-> -1]

\* C3: in every state of a constructed Device, a CPU device has index -1
\* or 0.
C3_CpuIndexInvariant ==
    (Constructed /\ is_cpu(dev)) => index(dev) \in {-1, 0}

\* C4: set_index(n) validates nothing: it never throws, for any n, and
\* afterwards index() returns n.
C4_SetIndexUnvalidated ==
    last.op = "set_index" => (last.result.ok /\ index(dev) = last.arg.index)

C4_Witness ==
    /\ last.op = "set_index"
    /\ is_cpu(dev)
    /\ last.arg.index = INT32_MIN
    /\ index(dev) = INT32_MIN

\* C5: operator== returns true exactly when both the types and the indices
\* are identical, without normalization (CPU/-1 differs from CPU/0), and
\* operator!= returns the negation.
C5_StrictEquality ==
    LET same == (type(dev) = type(last.arg.other) /\ index(dev) = index(last.arg.other)) IN
    /\ last.op = "operator==" => (last.result.msg[1] = same)
    /\ last.op = "operator!=" => (last.result.msg[1] = ~same)

C5_Witness ==
    /\ last.op = "operator=="
    /\ dev = [type_ |-> "CPU", index_ |-> -1]
    /\ last.arg.other = [type_ |-> "CPU", index_ |-> 0]
    /\ last.result.msg[1] = FALSE

\* C6: Device(backend, index) takes the dense and sparse CPU backends to
\* CPU and the dense and sparse CUDA backends to CUDA and throws for every
\* other backend; for a mapped backend its outcome is that of
\* Device(type, index) for the mapped type.
C6_BackendConstructor ==
    last.op = "Device_Backend" =>
        IF last.arg.backend \in {"kCPU", "kSparseCPU"}
        THEN last.result = Device_Type("CPU", last.arg.index)
        ELSE IF last.arg.backend \in {"kCUDA", "kSparseCUDA"}
        THEN last.result = Device_Type("CUDA", last.arg.index)
        ELSE ~last.result.ok

C6_Witness ==
    /\ last.op = "Device_Backend"
    /\ last.arg.backend = "kSparseCUDA"
    /\ last.arg.index = 2
    /\ last.result.ok
    /\ dev = [type_ |-> "CUDA", index_ |-> 2]

\* C7: no call on a constructed Device changes its type, and no call other
\* than set_index changes its index.
C7_TypeImmutable ==
    [][(Constructed /\ last'.op \notin ConstructorCalls) =>
         /\ type(dev') = type(dev)
         /\ (last'.op # "set_index" => index(dev') = index(dev))]_vars

C7_Witness ==
    /\ last.op = "set_index"
    /\ is_cuda(dev)
    /\ last.arg.index = 0
    /\ index(dev) = 0

\* C8: has_index() returns true exactly when the stored index is not -1,
\* also after set_index stored an index below -1.
C8_HasIndexIffNotSentinel ==
    last.op = "has_index" => (last.result.msg[1] = (dev.index_ # -1))

C8_Witness ==
    /\ last.op = "has_index"
    /\ dev.index_ = -2
    /\ last.result.msg[1] = TRUE

C10_ErrorNamesOffender ==
    (last.op \in {"Device_Type", "Device_Backend"} /\ ~last.result.ok) =>
        IF last.op = "Device_Backend" /\
           last.arg.backend \notin {"kCPU", "kSparseCPU", "kCUDA", "kSparseCUDA"}
        THEN \E i \in 1..Len(last.result.msg) : last.result.msg[i] = toString(last.arg.backend)
        ELSE IsInfix(FormatInt(last.arg.index), last.result.msg)

C10_Witness ==
    /\ last.op = "Device_Backend"
    /\ last.arg.backend = "kSparseCPU"
    /\ last.arg.index = 2
    /\ ~last.result.ok

====
